---------------------------- MODULE Spec2Model ----------------------------
(***************************************************************************)
(* Model of src/main.rs: the "traps" puzzle.  One puzzle is read from      *)
(* stdin by parse_traps_puzzle, solved by naive_solve (score every         *)
(* position, pop the k largest scores from a BinaryHeap, evaluate the skip *)
(* set with dmg_from_skip_inds) and its total printed.  The tests' oracle  *)
(* brute_force_solve is an operator.                                       *)
(*                                                                         *)
(* Numbers.  TLC's integers are 32 bits wide, the program's usize is 64    *)
(* bits wide and its scores are i32.  A usize (and a mathematical integer) *)
(* is therefore kept as a pair <<hi, lo>> that stands for hi * 2^31 + lo   *)
(* with 0 <= lo < 2^31; an i32 is kept as a TLC integer.                   *)
(***************************************************************************)
EXTENDS Integers, Sequences, FiniteSets

VARIABLES
    stdin,       \* the unread lines of the input, each a sequence of tokens
    pc,          \* where the program is
    base_dmgs,   \* TrapsPuzzle.base_dmgs
    k,           \* TrapsPuzzle.k
    score_heap,  \* naive_solve's BinaryHeap, a set of <<score, index>>
    skip_inds,   \* the HashSet of skipped positions
    i,           \* the counter of the loop that is running
    total_dmg,   \* dmg_from_skip_inds' total_dmg
    bonus_dmg,   \* dmg_from_skip_inds' bonus_dmg
    result       \* what naive_solve returned (None before it returns)

vars == <<stdin, pc, base_dmgs, k, score_heap, skip_inds, i, total_dmg,
          bonus_dmg, result>>

---------------------------------------------------------------------------
\* Bounds of the model.

\* the longest damage line
MaxN == 3
\* the small damages are 0..MaxDmg
MaxDmg == 1

---------------------------------------------------------------------------
\* Wide integers: <<hi, lo>> is hi * 2^31 + lo.

\* i32::MAX = 2^31 - 1, the largest value of the score type
MaxLimb == 2147483647

MinI32 == (0 - MaxLimb) - 1

\* a small natural number as a wide integer
W(x) == <<0, x>>

\* an i32 as a wide integer
WOfI32(s) == IF s >= 0 THEN <<0, s>> ELSE <<0 - 1, (s + MaxLimb) + 1>>

WAdd(a, b) ==
    IF a[2] > MaxLimb - b[2]
    THEN <<a[1] + b[1] + 1, (a[2] - (MaxLimb - b[2])) - 1>>
    ELSE <<a[1] + b[1], a[2] + b[2]>>

WNeg(a) ==
    IF a[2] = 0 THEN <<0 - a[1], 0>>
    ELSE <<(0 - a[1]) - 1, (MaxLimb - a[2]) + 1>>

WSub(a, b) == WAdd(a, WNeg(b))

WLess(a, b) == a[1] < b[1] \/ (a[1] = b[1] /\ a[2] < b[2])

WLeq(a, b) == a = b \/ WLess(a, b)

RECURSIVE WSum(_, _)
\* the sum of f[x] over the finite set S
WSum(f, S) ==
    IF S = {} THEN W(0)
    ELSE LET x == CHOOSE y \in S : TRUE
         IN  WAdd(f[x], WSum(f, S \ {x}))

\* the least element of a non-empty set of wide integers
WMin(S) == CHOOSE m \in S : \A x \in S : WLeq(m, x)

---------------------------------------------------------------------------
\* The input text.  A token is a number or text that does not parse.

\* a token s for which s.trim().parse() is an Err
BadTok == <<0, 0 - 1>>

\* damages at and beyond the width of the score type: 2^31, 2^31 + 1, 2^32 + 1
BigDamages == {<<1, 0>>, <<1, 1>>, <<2, 1>>}

DamageSet == {W(d) : d \in 0..MaxDmg} \cup BigDamages

SeqsUpTo(S, n) == UNION {[1..m -> S] : m \in 1..n}

\* the "n k" lines: well formed, one number only, or a token that is no number
Line1Set ==
    {<<W(a), W(b)>> : a \in 0..MaxN, b \in 0..(MaxN + 1)}
        \cup {<<W(a)>> : a \in 0..MaxN}
        \cup {<<BadTok, W(b)>> : b \in 0..MaxN}

\* the damage lines: split(' ') yields at least one token
Line2Set == SeqsUpTo(DamageSet \cup {BadTok}, MaxN)

\* the puzzles of the tests brute_force_solver_works,
\* naive_and_brute_agree_single_easy and naive_and_brute_agree_single_hard
FixtureEasy == <<W(8), W(2), W(5), W(15), W(11), W(2), W(8)>>

FixtureHard == <<W(3), W(4), W(4), W(1)>>

FixtureInputs ==
    { << <<W(7), W(5)>>, FixtureEasy >>,
      << <<W(4), W(3)>>, FixtureHard >> }

Inputs == {<<l1, l2>> : l1 \in Line1Set, l2 \in Line2Set} \cup FixtureInputs

None == <<0 - 1, 0 - 1>>

---------------------------------------------------------------------------
\* TrapsPuzzle and dmg_from_skip_inds.  Positions are 0-based as in the
\* program; a TLA+ sequence is 1-based.

Dmg(dmgs, p) == dmgs[p + 1]

Positions(dmgs) == 0..(Len(dmgs) - 1)

\* a changed EvalAdd: the bonus is not added
EvalAddNoBonus(total, dmg, bonus) == WAdd(total, dmg)

\* what one non-skipped position adds to total_dmg
EvalAdd(total, dmg, bonus) == WAdd(total, WAdd(dmg, W(bonus)))

\* a changed EvalBody: a skipped position still adds its damage
EvalBodySkipAdds(dmgs, skips, p, acc) ==
    IF p \in skips
    THEN <<WAdd(acc[1], Dmg(dmgs, p)), acc[2] + 1>>
    ELSE <<WAdd(acc[1], WAdd(Dmg(dmgs, p), W(acc[2]))), acc[2]>>

\* the body of the for loop at position p; acc is <<total_dmg, bonus_dmg>>
EvalBody(dmgs, skips, p, acc) ==
    IF p \in skips
    THEN <<acc[1], acc[2] + 1>>
    ELSE <<EvalAdd(acc[1], Dmg(dmgs, p), acc[2]), acc[2]>>

RECURSIVE EvalFrom(_, _, _, _)
EvalFrom(dmgs, skips, p, acc) ==
    IF p >= Len(dmgs) THEN acc[1]
    ELSE EvalFrom(dmgs, skips, p + 1, EvalBody(dmgs, skips, p, acc))

DmgFromSkipInds(dmgs, skips) == EvalFrom(dmgs, skips, 0, <<W(0), 0>>)

---------------------------------------------------------------------------
\* naive_solve's score.

\* `x as i32` of a usize x: the low 32 bits, read as two's complement
AsI32(x) == IF x[1] % 2 = 0 THEN x[2] ELSE (x[2] - MaxLimb) - 1

\* whether a - b leaves the range of i32
I32SubOverflows(a, b) ==
    IF b >= 0 THEN a < MinI32 + b ELSE a > MaxLimb + b

\* a - b modulo 2^32, what a build without overflow checks computes
I32WrappingSub(a, b) ==
    IF b >= 0
    THEN IF a < MinI32 + b
         THEN ((((a - MinI32) - b) + MaxLimb) + 1)
         ELSE a - b
    ELSE IF a > MaxLimb + b
         THEN ((((a - MaxLimb) - b) - 1) + MinI32)
         ELSE a - b

\* the operands of the subtraction at position p
ScoreLeft(dmgs, p) == AsI32(Dmg(dmgs, p))

ScoreRight(dmgs, p) == AsI32(W(Len(dmgs) - p - 1))

ScoreOverflows(dmgs, p) ==
    I32SubOverflows(ScoreLeft(dmgs, p), ScoreRight(dmgs, p))

Score(dmgs, p) == I32WrappingSub(ScoreLeft(dmgs, p), ScoreRight(dmgs, p))

\* a changed HeapMax: cmp is reversed, other.0.cmp(&self.0)
HeapMin(heap) == {e \in heap : \A f \in heap : e[1] <= f[1]}

\* ScoreIndexPair::cmp compares the scores only: the pairs pop() may return
HeapMax(heap) == {e \in heap : \A f \in heap : f[1] <= e[1]}

\* a changed HeapPop: unwrap_or_default() in place of unwrap()
HeapPopOrDefault(heap) == IF heap = {} THEN {<<0, 0>>} ELSE HeapMax(heap)

\* a changed HeapRemove: peek() in place of pop()
HeapPeek(heap, e) == heap

\* what pop() leaves in the heap
HeapRemove(heap, e) == heap \ {e}

\* score_heap.pop(): the candidates, the empty set standing for Option::None
HeapPop(heap) == HeapMax(heap)

---------------------------------------------------------------------------
\* brute_force_solve of the tests: the minimum over the k-combinations.

Combinations(dmgs, kk) ==
    {S \in SUBSET Positions(dmgs) : Cardinality(S) = kk}

BruteForceSolve(dmgs, kk) ==
    WMin({DmgFromSkipInds(dmgs, S) : S \in Combinations(dmgs, kk)})

---------------------------------------------------------------------------
\* The program.

Init ==
    /\ stdin \in Inputs
    /\ pc = "parse"
    /\ base_dmgs = <<>>
    /\ k = 0
    /\ score_heap = {}
    /\ skip_inds = {}
    /\ i = 0
    /\ total_dmg = W(0)
    /\ bonus_dmg = 0
    /\ result = None

\* whether parse_traps_puzzle unwraps an Err or indexes line_1_nums out of
\* bounds
ParseFails(l1, l2) ==
    \/ \E t \in 1..Len(l1) : l1[t] = BadTok
    \/ Len(l1) < 2
    \/ \E t \in 1..Len(l2) : l2[t] = BadTok

\* parse_traps_puzzle panics
ParsePanic ==
    /\ pc = "parse"
    /\ ParseFails(stdin[1], stdin[2])
    /\ pc' = "parse_panic"
    /\ stdin' = <<>>
    /\ UNCHANGED <<base_dmgs, k, score_heap, skip_inds, i, total_dmg,
                   bonus_dmg, result>>

\* parse_traps_puzzle returns the puzzle and main calls naive_solve on it
ParseTrapsPuzzle ==
    /\ pc = "parse"
    /\ ~ParseFails(stdin[1], stdin[2])
    /\ base_dmgs' = stdin[2]
    /\ k' = stdin[1][2][2]
    /\ stdin' = <<>>
    /\ pc' = "score"
    /\ i' = 0
    /\ UNCHANGED <<score_heap, skip_inds, total_dmg, bonus_dmg, result>>

\* where naive_solve goes after its scoring loop
AfterScore == IF k = 0 THEN "eval" ELSE "pop"

\* one round of the scoring loop
PushScore ==
    /\ pc = "score"
    /\ i < Len(base_dmgs)
    /\ ~ScoreOverflows(base_dmgs, i)
    /\ score_heap' = score_heap \cup {<<Score(base_dmgs, i), i>>}
    /\ i' = IF i + 1 < Len(base_dmgs) THEN i + 1 ELSE 0
    /\ pc' = IF i + 1 < Len(base_dmgs) THEN "score" ELSE AfterScore
    /\ UNCHANGED <<stdin, base_dmgs, k, skip_inds, total_dmg, bonus_dmg,
                   result>>

\* the subtraction overflows in a build without overflow checks: it wraps
PushScoreWrap ==
    /\ pc = "score"
    /\ i < Len(base_dmgs)
    /\ ScoreOverflows(base_dmgs, i)
    /\ score_heap' = score_heap \cup {<<Score(base_dmgs, i), i>>}
    /\ i' = IF i + 1 < Len(base_dmgs) THEN i + 1 ELSE 0
    /\ pc' = IF i + 1 < Len(base_dmgs) THEN "score" ELSE AfterScore
    /\ UNCHANGED <<stdin, base_dmgs, k, skip_inds, total_dmg, bonus_dmg,
                   result>>

\* the subtraction overflows in a build with overflow checks: it panics
PushScorePanic ==
    /\ pc = "score"
    /\ i < Len(base_dmgs)
    /\ ScoreOverflows(base_dmgs, i)
    /\ pc' = "panic"
    /\ UNCHANGED <<stdin, base_dmgs, k, score_heap, skip_inds, i, total_dmg,
                   bonus_dmg, result>>

\* one round of the extraction loop
PopSkip ==
    /\ pc = "pop"
    /\ i < k
    /\ \E e \in HeapPop(score_heap) :
          /\ skip_inds' = skip_inds \cup {e[2]}
          /\ score_heap' = HeapRemove(score_heap, e)
    /\ i' = IF i + 1 < k THEN i + 1 ELSE 0
    /\ pc' = IF i + 1 < k THEN "pop" ELSE "eval"
    /\ UNCHANGED <<stdin, base_dmgs, k, total_dmg, bonus_dmg, result>>

\* pop() returned None and unwrap() panics
PopPanic ==
    /\ pc = "pop"
    /\ i < k
    /\ HeapPop(score_heap) = {}
    /\ pc' = "panic"
    /\ UNCHANGED <<stdin, base_dmgs, k, score_heap, skip_inds, i, total_dmg,
                   bonus_dmg, result>>

\* one round of dmg_from_skip_inds' loop; after the last one the total is
\* returned
EvalStep ==
    /\ pc = "eval"
    /\ i < Len(base_dmgs)
    /\ LET acc == EvalBody(base_dmgs, skip_inds, i, <<total_dmg, bonus_dmg>>)
       IN  /\ total_dmg' = acc[1]
           /\ bonus_dmg' = acc[2]
           /\ IF i + 1 < Len(base_dmgs)
              THEN /\ i' = i + 1
                   /\ pc' = "eval"
                   /\ result' = result
              ELSE /\ i' = i + 1
                   /\ pc' = "done"
                   /\ result' = acc[1]
    /\ UNCHANGED <<stdin, base_dmgs, k, score_heap, skip_inds>>

Next ==
    \/ ParsePanic
    \/ ParseTrapsPuzzle
    \/ PushScore
    \/ PushScoreWrap
    \/ PushScorePanic
    \/ PopSkip
    \/ PopPanic
    \/ EvalStep

Spec == Init /\ [][Next]_vars

---------------------------------------------------------------------------
\* The evaluator alone, on a puzzle built in memory as the tests build it
\* and on any set of positions.

EvalPuzzles == SeqsUpTo(DamageSet, MaxN) \cup {<<W(1), W(2), W(3)>>}

InitEval ==
    /\ stdin = <<>>
    /\ pc = "eval"
    /\ base_dmgs \in EvalPuzzles
    /\ k = 0
    /\ score_heap = {}
    /\ skip_inds \in SUBSET (0..(MaxN - 1))
    /\ i = 0
    /\ total_dmg = W(0)
    /\ bonus_dmg = 0
    /\ result = None

NextEval == EvalStep

SpecEval == InitEval /\ [][NextEval]_vars

---------------------------------------------------------------------------
\* What the claims are stated with.

\* the program is inside naive_solve or has left it
InSolver == pc \in {"score", "pop", "eval", "done", "panic"}

\* damages[p] - (n - p - 1) as a mathematical integer
MathScore(dmgs, p) == WSub(Dmg(dmgs, p), W(Len(dmgs) - p - 1))

ScoreSum(dmgs, S) == WSum([p \in S |-> MathScore(dmgs, p)], S)

DamageSum(dmgs) == WSum([p \in Positions(dmgs) |-> Dmg(dmgs, p)], Positions(dmgs))

\* the number of skipped positions before position p
SkipsBefore(S, p) == Cardinality({j \in S : j < p})

\* the sum over the non-skipped positions below upto of damage plus bonus
ClosedTotal(dmgs, S, upto) ==
    LET Kept == {p \in 0..(upto - 1) : p \notin S}
    IN  WSum([p \in Kept |-> WAdd(Dmg(dmgs, p), W(SkipsBefore(S, p)))], Kept)

\* the skip sets that some order of popping equal scores produces
TopKSets(dmgs, kk) ==
    {S \in Combinations(dmgs, kk) :
        \A a \in S : \A b \in Positions(dmgs) \ S :
            Score(dmgs, a) >= Score(dmgs, b)}

---------------------------------------------------------------------------
\* C1: for n <= 9 and 1 <= k < n the total naive_solve returns is the
\* minimum of the evaluator over all k-subsets of the positions, the
\* result of brute_force_solve.
C1_NaiveEqualsBruteForce ==
    (pc = "done" /\ Len(base_dmgs) <= 9 /\ 1 <= k /\ k < Len(base_dmgs))
        => result = BruteForceSolve(base_dmgs, k)

\* C2: on damages [8,2,5,15,11,2,8] with k = 5 naive_solve returns 9 and
\* the exhaustive minimum is 9.
C2_FixtureTotalIsNine ==
    (pc = "done" /\ base_dmgs = FixtureEasy /\ k = 5)
        => (result = W(9) /\ BruteForceSolve(FixtureEasy, 5) = W(9))

C2_Witness == pc = "done" /\ base_dmgs = FixtureEasy /\ k = 5 /\ result = W(9)

\* C3: after i rounds of the evaluator's loop the bonus is the number of
\* skipped positions below i and the total is the sum, over the non-skipped
\* positions p below i, of damages[p] plus the number of skipped positions
\* below p; the value returned is that sum over all positions; on [1,2,3]
\* the skip set {} gives 6 and the skip set {0} gives 7.
C3_EvaluatorScan ==
    /\ i <= Len(base_dmgs)
    /\ bonus_dmg = SkipsBefore(skip_inds, i)
    /\ total_dmg = ClosedTotal(base_dmgs, skip_inds, i)
    /\ pc = "done" =>
          /\ i = Len(base_dmgs)
          /\ result = ClosedTotal(base_dmgs, skip_inds, Len(base_dmgs))
          /\ (base_dmgs = <<W(1), W(2), W(3)>> /\ skip_inds = {})
                => result = W(6)
          /\ (base_dmgs = <<W(1), W(2), W(3)>> /\ skip_inds = {0})
                => result = W(7)

C3_Witness ==
    /\ pc = "done"
    /\ base_dmgs = <<W(1), W(2), W(3)>>
    /\ skip_inds = {0}
    /\ bonus_dmg = 1
    /\ result = W(7)

\* C4: when k <= n the skip set naive_solve hands to the evaluator holds
\* exactly k distinct positions, each in 0..n-1.
C4_SkipSetSize ==
    (pc \in {"eval", "done"} /\ k <= Len(base_dmgs))
        => (Cardinality(skip_inds) = k /\ skip_inds \subseteq Positions(base_dmgs))

\* the set is built, and a position in it ties with one left out
C4_Witness ==
    /\ pc = "eval"
    /\ i = 0
    /\ k >= 1
    /\ Cardinality(skip_inds) = k
    /\ \E a \in skip_inds : \E b \in Positions(base_dmgs) \ skip_inds :
          Score(base_dmgs, a) = Score(base_dmgs, b)

\* C5: the total naive_solve returns is the total of every skip set that
\* another order of popping equal scores would have produced.
C5_TieBreakIndependent ==
    (pc = "done" /\ k <= Len(base_dmgs))
        => \A S \in TopKSets(base_dmgs, k) :
              DmgFromSkipInds(base_dmgs, S) = result

\* C6: with k = n naive_solve does not fail, skips every position and
\* returns 0.
C6_SkipAllIsZero ==
    (InSolver /\ k = Len(base_dmgs))
        => /\ pc # "panic"
           /\ pc = "done" => (result = W(0) /\ skip_inds = Positions(base_dmgs))

\* C7: with k > n naive_solve never reaches the evaluator and never returns
\* a total; no more than n positions are ever extracted.
C7_TooManySkipsNeverReturns ==
    (InSolver /\ k > Len(base_dmgs))
        => /\ pc \in {"score", "pop", "panic"}
           /\ result = None
           /\ Cardinality(skip_inds) <= Len(base_dmgs)
           /\ Cardinality(skip_inds) < k

\* the extraction from the emptied heap aborted
C7_Witness ==
    /\ pc = "panic"
    /\ k > Len(base_dmgs)
    /\ score_heap = {}
    /\ Cardinality(skip_inds) = Len(base_dmgs)

\* C8: a puzzle the parser hands to naive_solve has exactly the n damages
\* its "n k" line declares and a budget k <= n.
C8_ParsedPuzzleValidated ==
    [][(pc = "parse" /\ pc' = "score")
          => (Len(base_dmgs') = stdin[1][1][2] /\ k' <= Len(base_dmgs'))]_vars

\* C9: every score in the heap is the mathematical integer
\* damages[i] - (n - i - 1), so scores are ordered as those integers are.
C9_ScoreIsMathematical ==
    /\ \A e \in score_heap : WOfI32(e[1]) = MathScore(base_dmgs, e[2])
    /\ \A e \in score_heap : \A f \in score_heap :
          (e[1] < f[1]) <=> WLess(MathScore(base_dmgs, e[2]),
                                  MathScore(base_dmgs, f[2]))

\* C10: for a skip set S of k distinct positions in 0..n-1 the evaluator
\* returns (sum of the damages) - (sum of the scores of S) - k*(k-1)/2, and
\* another set of k positions has a smaller total exactly when the sum of
\* its scores is larger.
C10_TotalFromScoreSum ==
    (pc = "done" /\ skip_inds \subseteq Positions(base_dmgs))
        => LET kk == Cardinality(skip_inds)
           IN  /\ result = WSub(WSub(DamageSum(base_dmgs),
                                     ScoreSum(base_dmgs, skip_inds)),
                                W((kk * (kk - 1)) \div 2))
               /\ \A T \in Combinations(base_dmgs, kk) :
                     WLess(DmgFromSkipInds(base_dmgs, T), result)
                        <=> WLess(ScoreSum(base_dmgs, skip_inds),
                                  ScoreSum(base_dmgs, T))

\* two positions are skipped and a damage of 2^31 or more is kept
C10_Witness ==
    /\ pc = "done"
    /\ Cardinality(skip_inds) = 2
    /\ skip_inds \subseteq Positions(base_dmgs)
    /\ \E p \in Positions(base_dmgs) \ skip_inds : Dmg(base_dmgs, p)[1] >= 1

===========================================================================
